---- MODULE Spec2Model ----
(***************************************************************************)
(* Model of the RVI node library (src/src/rvi.c): the connection index,    *)
(* the two service indexes and the API operations that act on them.        *)
(*                                                                         *)
(* The three indexes are b-trees (btree.h, not part of src/).  A b-tree is *)
(* modelled as the sequence of its entries in comparator order.            *)
(***************************************************************************)
EXTENDS Integers, Sequences, FiniteSets, TLC

VARIABLES
    remote_idx,        \* ctx->remote_idx: remotes ordered by compare_fd
    service_name_idx,  \* ctx->service_name_idx: services ordered by compare_name
    service_reg_idx,   \* ctx->service_reg_idx: services ordered by compare_registrant
    open_fds,          \* descriptors the process holds open (operating system)
    freed,             \* service structs released by rvi_service_destroy
    proc,              \* "running", or "undefined" after undefined behaviour
    call,              \* the last API call: arguments, environment outcome, result
    cred               \* ctx->cred: the slots of the credential array

vars == <<remote_idx, service_name_idx, service_reg_idx, open_fds, freed,
          proc, call, cred>>

(***************************************************************************)
(* Bounds of the model.                                                    *)
(***************************************************************************)
MaxFd == 2

FDs == 0..MaxFd

\* Service names of the model, listed in strcmp order.
NameOrder == <<"a", "b">>

Names == {NameOrder[i] : i \in 1..Len(NameOrder)}

\* A NULL char pointer (the name of a zero-initialised key struct).
NULLNAME == "<NULL>"

\* The largest number of .jwt files in the credential directory.
MaxCredFiles == 21

(***************************************************************************)
(* Program constants.                                                      *)
(***************************************************************************)
RVI_OK == 0

EINVAL == 22

RVI_ERROR_OPENSSL == 100

\* Local services are associated with stdin.
STDIN == 0

\* The number of slots of the credential array (malloc(20 * sizeof(char *))).
CredSlots == 20

\* A NULL slot of the credential array; the credential read from the k-th
\* .jwt file is k.
NULLCRED == 0

(***************************************************************************)
(* Structs.                                                                *)
(***************************************************************************)
\* rvi_remote_t.  A NULL regex_t pointer is the empty pattern set.
rvi_remote_t(fd) ==
    [isnull |-> FALSE, fd |-> fd, right_to_register |-> {}, right_to_invoke |-> {}]

\* The NULL rvi_remote_t pointer, as an entry of an index.
NULLREMOTE ==
    [isnull |-> TRUE, fd |-> -1, right_to_register |-> {}, right_to_invoke |-> {}]

\* rvi_service_t.
rvi_service_t(name, registrant, callback) ==
    [name |-> name, registrant |-> registrant, callback |-> callback]

(***************************************************************************)
(* Comparison functions.                                                   *)
(***************************************************************************)
\* The empty string sorts before every name.
Rank(n) == IF n = "" THEN 0 ELSE CHOOSE i \in 1..Len(NameOrder) : NameOrder[i] = n

strcmp(x, y) == Rank(x) - Rank(y)

compare_fd(a, b) == a.fd - b.fd

\* A comparison that forgets the registrant: a key without a name matches
\* every service.
compare_registrant_name_only(a, b) ==
    IF a.name # NULLNAME /\ b.name # NULLNAME
    THEN strcmp(a.name, b.name)
    ELSE 0

compare_registrant(a, b) ==
    LET result == a.registrant - b.registrant
    IN  IF result = 0 /\ a.name # NULLNAME /\ b.name # NULLNAME
        THEN strcmp(a.name, b.name)
        ELSE result

compare_name(a, b) == strcmp(a.name, b.name)

(***************************************************************************)
(* The b-tree operations the library calls.  A tree is created with its    *)
(* comparison function (btree_create(2, compare_fd), ...); cmp names it.   *)
(***************************************************************************)
compare(cmp, a, b) ==
    CASE cmp = "compare_fd" -> compare_fd(a, b)
      [] cmp = "compare_name" -> compare_name(a, b)
      [] cmp = "compare_registrant" -> compare_registrant(a, b)

Elems(tree) == {tree[i] : i \in 1..Len(tree)}

Matches(tree, cmp, key) == {i \in 1..Len(tree) : compare(cmp, tree[i], key) = 0}

Min(S) == CHOOSE x \in S : \A y \in S : x <= y

\* The position of an entry comparing equal to key; 0 is the NULL result.
btree_search(tree, cmp, key) ==
    IF Matches(tree, cmp, key) = {} THEN 0 ELSE Min(Matches(tree, cmp, key))

\* Insertion keeps comparator order and rejects an entry comparing equal to
\* one already present.
btree_insert(tree, cmp, data) ==
    IF Matches(tree, cmp, data) # {}
    THEN [res |-> -1, tree |-> tree]
    ELSE LET pos == Cardinality({i \in 1..Len(tree) : compare(cmp, tree[i], data) < 0})
         IN  [res |-> 0,
              tree |-> SubSeq(tree, 1, pos) \o <<data>> \o SubSeq(tree, pos + 1, Len(tree))]

\* Deletion removes the entry comparing equal to key; negative when absent.
btree_delete(tree, cmp, key) ==
    IF Matches(tree, cmp, key) = {}
    THEN [res |-> -1, tree |-> tree]
    ELSE LET pos == Min(Matches(tree, cmp, key))
         IN  [res |-> 0,
              tree |-> SubSeq(tree, 1, pos - 1) \o SubSeq(tree, pos + 1, Len(tree))]

\* btree_find(tree, key): the position from which an iteration that starts
\* at key runs, that is the first entry not below key; 0 when there is none.
btree_find(tree, cmp, key) ==
    LET S == {i \in 1..Len(tree) : compare(cmp, tree[i], key) >= 0}
    IN  IF S = {} THEN 0 ELSE Min(S)

(***************************************************************************)
(* Constructors.                                                           *)
(***************************************************************************)
\* NULL when sbio is NULL or fd is negative, else a zero-initialised remote
\* holding fd.
rvi_remote_create(sbio, fd) ==
    IF ~sbio \/ fd < 0 THEN NULLREMOTE ELSE rvi_remote_t(fd)

\* TRUE when rvi_service_create returns a service (name non-NULL, registrant
\* not negative).
rvi_service_create_ok(name, registrant) ==
    ~(name = NULLNAME \/ registrant < 0)

rvi_service_create(name, registrant, callback) ==
    rvi_service_t(name, registrant, callback)

(***************************************************************************)
(* The record of an API call.                                              *)
(*   op, fd, name : the operation and its arguments (fd of rvi_connect is  *)
(*                  the descriptor of the new socket)                      *)
(*   path         : which branch the environment made the call take        *)
(*   reply        : what BIO_read got from the peer                        *)
(*   ins          : result of the call's btree_insert (0 when none)        *)
(*   sent         : messages the call wrote to connections                 *)
(*   callbacks    : number of service callbacks the call executed          *)
(*   returned/ret : whether the call returned, and its return value        *)
(*   again        : the call before it was a successful call of the same   *)
(*                  operation with the same name                           *)
(*   pre          : the three indexes as an announce found them             *)
(*   out          : what the call wrote through its output parameters      *)
(***************************************************************************)
\* No output parameter written.
NoOut == [conn |-> <<>>, conn_size |-> -1]

Called(op, fd, name, path, reply, ins, sent, ret) ==
    [op |-> op, fd |-> fd, name |-> name, path |-> path, reply |-> reply,
     ins |-> ins, sent |-> sent, callbacks |-> 0, returned |-> TRUE, ret |-> ret,
     again |-> FALSE, pre |-> <<>>, out |-> NoOut]

\* A message written to connection to; creds: the credentials it carries.
Msg(cmd, to) == [cmd |-> cmd, to |-> to, creds |-> <<>>]

RemoteFds == {r.fd : r \in Elems(remote_idx)}

(***************************************************************************)
(* rvi_init: empty indexes.  The application may or may not hold stdin.    *)
(***************************************************************************)
\* The credential array as rvi_init allocates it: every slot NULL.
cred_alloc == [i \in 0..(CredSlots - 1) |-> NULLCRED]

\* The loop of parse_config over a credential directory with files .jwt
\* files: the k-th credential goes to slot k - 1, with no test of the slot
\* number against the size of the array.  overflow: a credential was written
\* past the last slot.
parse_config(slots, files) ==
    [cred |-> [i \in DOMAIN slots |-> IF i < files THEN i + 1 ELSE slots[i]],
     overflow |-> files > CredSlots]

\* The credentials the array holds.
LoadedCreds == {cred[i] : i \in DOMAIN cred} \ {NULLCRED}

\* rvi_init with files .jwt files in the credential directory.
rvi_init(files) ==
    LET cfg == parse_config(cred_alloc, files)
    IN  /\ remote_idx = <<>>
        /\ service_name_idx = <<>>
        /\ service_reg_idx = <<>>
        /\ open_fds \in {{STDIN}, {}}
        /\ freed = {}
        /\ cred = cfg.cred
        /\ proc = IF cfg.overflow THEN "undefined" ELSE "running"
        /\ call = Called("rvi_init", -1, NULLNAME, "ok", "none", 0, <<>>, RVI_OK)

\* A node with one credential.
Init == rvi_init(1)

\* A node with any number of credential files.
InitCred == \E files \in 0..MaxCredFiles : rvi_init(files)

(***************************************************************************)
(* rvi_connect.                                                            *)
(***************************************************************************)
ConnectFailures == {"einval", "nobio", "nossl", "noconnect", "nohandshake"}

\* The return value of rvi_connect on the paths that return before a remote
\* is created.
connect_error(path) ==
    CASE path = "einval" -> -EINVAL
      [] path = "nobio" -> -RVI_ERROR_OPENSSL
      [] path = "nossl" -> -RVI_ERROR_OPENSSL
      [] path = "noconnect" -> -1
      [] path = "nohandshake" -> -1

\* The au message rvi_connect writes to the new connection: its creds are
\* the first slot of the credential array.
connect_sent(fd) == <<[Msg("au", fd) EXCEPT !.creds = <<cred[0]>>]>>

\* Invalid arguments, or a failure of BIO_new_ssl_connect, BIO_get_ssl,
\* BIO_do_connect or BIO_do_handshake.
rvi_connect_fail(path) ==
    /\ proc = "running"
    /\ path \in ConnectFailures
    /\ call' = Called("rvi_connect", -1, NULLNAME, path, "none", 0, <<>>,
                      connect_error(path))
    /\ UNCHANGED <<remote_idx, service_name_idx, service_reg_idx, open_fds,
                   freed, proc>>
    /\ UNCHANGED cred

\* The handshake succeeded on a new socket fd; reply is what BIO_read gets.
rvi_connect_ok(fd, reply) ==
    /\ proc = "running"
    /\ cred[0] # NULLCRED
    /\ fd \in FDs \ open_fds
    /\ reply \in {"none", "au", "malformed"}
    /\ LET remote == rvi_remote_create(TRUE, fd)
           ins == btree_insert(remote_idx, "compare_fd", remote)
       IN  /\ remote_idx' = ins.tree
           /\ call' = Called("rvi_connect", fd, NULLNAME, "ok", reply, ins.res,
                             connect_sent(fd), remote.fd)
    /\ open_fds' = open_fds \cup {fd}
    /\ UNCHANGED <<service_name_idx, service_reg_idx, freed, proc>>
    /\ UNCHANGED cred

\* The handshake succeeded on a new socket fd of a node that loaded no
\* credential: sprintf formats the NULL pointer cred[0] with %s, which is
\* undefined behaviour.  The call stops there (crashes), or goes on with an
\* au message that carries the text of the NULL pointer.
rvi_connect_nocred(fd, reply, crashes) ==
    /\ proc = "running"
    /\ cred[0] = NULLCRED
    /\ fd \in FDs \ open_fds
    /\ reply \in {"none", "au", "malformed"}
    /\ crashes \in BOOLEAN
    /\ crashes => reply = "none"
    /\ LET remote == rvi_remote_create(TRUE, fd)
           ins == btree_insert(remote_idx, "compare_fd", remote)
       IN  /\ remote_idx' = ins.tree
           /\ call' = [Called("rvi_connect", fd, NULLNAME, "nocred", reply, ins.res,
                              IF crashes THEN <<>> ELSE connect_sent(fd),
                              remote.fd)
                         EXCEPT !.returned = ~crashes]
    /\ open_fds' = open_fds \cup {fd}
    /\ proc' = "undefined"
    /\ UNCHANGED <<service_name_idx, service_reg_idx, freed, cred>>

\* The handshake succeeded but SSL_get_fd gives -1, so rvi_remote_create
\* returns NULL.  The NULL pointer is handed to btree_insert and then
\* dereferenced (remote->fd): undefined behaviour.  An empty tree takes the
\* NULL entry without comparing it; in a non-empty tree compare_fd already
\* dereferences it.  The call may not return, or return any value.
rvi_connect_null(entered, returns, ub_ret) ==
    /\ proc = "running"
    /\ entered \in BOOLEAN
    /\ returns \in BOOLEAN
    /\ ub_ret \in {-1, 0}
    /\ ~returns => ub_ret = 0
    /\ rvi_remote_create(TRUE, -1) = NULLREMOTE
    /\ Len(remote_idx) = 0 => entered
    /\ remote_idx' = IF entered THEN <<NULLREMOTE>> \o remote_idx ELSE remote_idx
    /\ proc' = "undefined"
    /\ call' = [Called("rvi_connect", -1, NULLNAME, "nofd", "none", 0,
                       connect_sent(-1), ub_ret)
                  EXCEPT !.returned = returns]
    /\ UNCHANGED <<service_name_idx, service_reg_idx, open_fds, freed>>
    /\ UNCHANGED cred

(***************************************************************************)
(* rvi_disconnect.                                                         *)
(***************************************************************************)
\* The key struct of a search by registrant: zero-initialised, registrant fd.
skey_of(fd) == rvi_service_t(NULLNAME, fd, "NULL")

\* A loop that stops after the first service it deletes.
disconnect_services_once(reg, fr, fd) ==
    LET i == btree_search(reg, "compare_registrant", skey_of(fd))
    IN  IF i = 0
        THEN [reg |-> reg, freed |-> fr, hung |-> FALSE]
        ELSE [reg |-> btree_delete(reg, "compare_registrant", reg[i]).tree,
              freed |-> fr \cup {reg[i]}, hung |-> FALSE]

\* The loop over the services registered by fd: each found service is
\* deleted from the registrant index and destroyed.  hung: the loop never
\* ends (btree_delete fails, so the same service is found again).
RECURSIVE disconnect_services(_, _, _)
disconnect_services(reg, fr, fd) ==
    LET i == btree_search(reg, "compare_registrant", skey_of(fd))
    IN  IF i = 0
        THEN [reg |-> reg, freed |-> fr, hung |-> FALSE]
        ELSE LET d == btree_delete(reg, "compare_registrant", reg[i])
             IN  IF d.res < 0
                 THEN [reg |-> reg, freed |-> fr, hung |-> TRUE]
                 ELSE disconnect_services(d.tree, fr \cup {reg[i]}, fd)

\* A lookup that takes the first entry of the index, whatever fd is.
disconnect_lookup_first(idx, fd) == IF Len(idx) = 0 THEN 0 ELSE 1

\* rkey.fd = fd; rtmp = btree_search(remote_idx, &rkey): the position of the
\* remote of fd, 0 when there is no such connection.
disconnect_lookup(idx, fd) == btree_search(idx, "compare_fd", rvi_remote_t(fd))

\* A delete that reports success and leaves the entry in the index.
disconnect_remote_keep(idx, rtmp) == [res |-> 0, tree |-> idx]

\* Deleting the found remote from the connection index.
disconnect_remote(idx, rtmp) == btree_delete(idx, "compare_fd", rtmp)

rvi_disconnect(fd) ==
    /\ proc = "running"
    /\ fd \in FDs
    /\ LET i == disconnect_lookup(remote_idx, fd)
       IN  IF i = 0
           THEN \* No such connection
                /\ call' = Called("rvi_disconnect", fd, NULLNAME, "nosuch", "none",
                                  0, <<>>, -1)
                /\ UNCHANGED <<remote_idx, service_name_idx, service_reg_idx,
                               open_fds, freed, proc>>
           ELSE LET d == disconnect_remote(remote_idx, remote_idx[i])
                    s == disconnect_services(service_reg_idx, freed, fd)
                IN  IF d.res < 0
                    THEN /\ call' = Called("rvi_disconnect", fd, NULLNAME, "delfail",
                                           "none", 0, <<>>, -1)
                         /\ UNCHANGED <<remote_idx, service_name_idx,
                                        service_reg_idx, open_fds, freed, proc>>
                    ELSE /\ remote_idx' = d.tree
                         /\ open_fds' = open_fds \ {fd}
                         /\ service_reg_idx' = s.reg
                         /\ freed' = s.freed
                         /\ call' = [Called("rvi_disconnect", fd, NULLNAME, "ok",
                                            "none", 0, <<>>, RVI_OK)
                                       EXCEPT !.returned = ~s.hung]
                         /\ proc' = IF s.hung THEN "hung" ELSE proc
                         /\ UNCHANGED service_name_idx
    /\ UNCHANGED cred

\* rvi_disconnect(fd) when btree_delete reports an error for a service of fd
\* that the loop has found: the error is printed, nothing is removed, and the
\* next search finds the same service again.
rvi_disconnect_delerr(fd) ==
    /\ proc = "running"
    /\ fd \in FDs
    /\ LET i == disconnect_lookup(remote_idx, fd)
       IN  /\ i # 0
           /\ LET d == disconnect_remote(remote_idx, remote_idx[i])
              IN  /\ d.res >= 0
                  /\ remote_idx' = d.tree
    /\ btree_search(service_reg_idx, "compare_registrant", skey_of(fd)) # 0
    /\ open_fds' = open_fds \ {fd}
    /\ call' = [Called("rvi_disconnect", fd, NULLNAME, "svcdelfail", "none", 0,
                       <<>>, RVI_OK)
                  EXCEPT !.returned = FALSE]
    /\ proc' = "hung"
    /\ UNCHANGED <<service_name_idx, service_reg_idx, freed, cred>>

(***************************************************************************)
(* rvi_disconnect as another thread of the process sees it: the function   *)
(* takes no lock, so every change it makes to an index is visible on its   *)
(* own.  While the call runs proc is "disconnecting" and call holds the    *)
(* descriptor.                                                             *)
(***************************************************************************)
\* From the entry to the first test of the while loop: the lookup, the delete
\* from the connection index and BIO_free_all.
rvi_disconnect_begin(fd) ==
    /\ proc = "running"
    /\ fd \in FDs
    /\ LET i == disconnect_lookup(remote_idx, fd)
       IN  IF i = 0
           THEN /\ call' = Called("rvi_disconnect", fd, NULLNAME, "nosuch", "none",
                                  0, <<>>, -1)
                /\ UNCHANGED <<remote_idx, open_fds, proc>>
           ELSE LET d == disconnect_remote(remote_idx, remote_idx[i])
                IN  IF d.res < 0
                    THEN /\ call' = Called("rvi_disconnect", fd, NULLNAME, "delfail",
                                           "none", 0, <<>>, -1)
                         /\ UNCHANGED <<remote_idx, open_fds, proc>>
                    ELSE /\ remote_idx' = d.tree
                         /\ open_fds' = open_fds \ {fd}
                         /\ call' = [Called("rvi_disconnect", fd, NULLNAME, "loop",
                                            "none", 0, <<>>, RVI_OK)
                                       EXCEPT !.returned = FALSE]
                         /\ proc' = "disconnecting"
    /\ UNCHANGED <<service_name_idx, service_reg_idx, freed>>
    /\ UNCHANGED cred

\* One iteration of the while loop: a service of the descriptor is found,
\* deleted from the registrant index and destroyed.
rvi_disconnect_iterate ==
    /\ proc = "disconnecting"
    /\ LET i == btree_search(service_reg_idx, "compare_registrant", skey_of(call.fd))
       IN  /\ i # 0
           /\ LET d == btree_delete(service_reg_idx, "compare_registrant",
                                    service_reg_idx[i])
              IN  IF d.res < 0
                  THEN UNCHANGED <<service_reg_idx, freed>>
                  ELSE /\ service_reg_idx' = d.tree
                       /\ freed' = freed \cup {service_reg_idx[i]}
    /\ UNCHANGED <<remote_idx, service_name_idx, open_fds, proc, call>>
    /\ UNCHANGED cred

\* The search of the while loop finds nothing: free(rtmp), return RVI_OK.
rvi_disconnect_end ==
    /\ proc = "disconnecting"
    /\ btree_search(service_reg_idx, "compare_registrant", skey_of(call.fd)) = 0
    /\ call' = [call EXCEPT !.path = "ok", !.returned = TRUE]
    /\ proc' = "running"
    /\ UNCHANGED <<remote_idx, service_name_idx, service_reg_idx, open_fds, freed>>
    /\ UNCHANGED cred

(***************************************************************************)
(* rvi_cleanup.                                                            *)
(***************************************************************************)
\* The first loop: while the connection index has entries, the first one is
\* found and its descriptor is disconnected (see rvi_disconnect).  hung: the
\* loop never ends (nothing is found, or the disconnect leaves the count of
\* the index as it was).
RECURSIVE cleanup_remotes(_, _, _, _)
cleanup_remotes(rem, reg, fr, fds) ==
    IF Len(rem) = 0
    THEN [remote |-> rem, reg |-> reg, freed |-> fr, open |-> fds, hung |-> FALSE]
    ELSE LET it == btree_find(rem, "compare_fd", rvi_remote_t(0))
             fd == rem[it].fd
             i == disconnect_lookup(rem, fd)
             d == disconnect_remote(rem, rem[i])
             s == disconnect_services(reg, fr, fd)
         IN  IF it = 0 \/ i = 0 \/ d.res < 0 \/ Len(d.tree) >= Len(rem)
             THEN [remote |-> rem, reg |-> reg, freed |-> fr, open |-> fds,
                   hung |-> TRUE]
             ELSE IF s.hung
             THEN [remote |-> d.tree, reg |-> s.reg, freed |-> s.freed,
                   open |-> fds \ {fd}, hung |-> TRUE]
             ELSE cleanup_remotes(d.tree, s.reg, s.freed, fds \ {fd})

\* The second loop: while the name index has entries, the first one is
\* deleted from both service indexes and destroyed.  ub: the entry found
\* points to a service that is destroyed already, or a destroyed service
\* stays in the name index; hung: the loop never ends.
RECURSIVE cleanup_services(_, _, _)
cleanup_services(byname, byreg, fr) ==
    IF Len(byname) = 0
    THEN [byname |-> byname, byreg |-> byreg, freed |-> fr, ub |-> FALSE,
          hung |-> FALSE]
    ELSE LET it == btree_find(byname, "compare_name", rvi_service_t("", 0, "NULL"))
         IN  IF it = 0
             THEN [byname |-> byname, byreg |-> byreg, freed |-> fr, ub |-> FALSE,
                   hung |-> TRUE]
             ELSE IF \/ byname[it] \in fr
                     \/ Len(btree_delete(byname, "compare_name", byname[it]).tree)
                           >= Len(byname)
             THEN [byname |-> byname, byreg |-> byreg, freed |-> fr, ub |-> TRUE,
                   hung |-> FALSE]
             ELSE cleanup_services(
                      btree_delete(byname, "compare_name", byname[it]).tree,
                      btree_delete(byreg, "compare_registrant", byname[it]).tree,
                      fr \cup {byname[it]})

\* The loop that frees the credentials: it runs from slot 0 to the first NULL
\* slot.  overrun: no slot of the array is NULL, the loop reads past the
\* array.
cleanup_cred(slots) ==
    [overrun |-> \A i \in DOMAIN slots : slots[i] # NULLCRED]

\* returns: whether a call that touches a destroyed service, or memory past
\* the credential array, comes back.
rvi_cleanup(returns) ==
    /\ proc = "running"
    /\ \E r \in {cleanup_remotes(remote_idx, service_reg_idx, freed, open_fds)} :
       \E s \in {cleanup_services(service_name_idx, r.reg, r.freed)} :
           /\ remote_idx' = r.remote
           /\ open_fds' = r.open
           /\ IF r.hung
              THEN /\ returns = FALSE
                   /\ service_name_idx' = service_name_idx
                   /\ service_reg_idx' = r.reg
                   /\ freed' = r.freed
                   /\ proc' = "hung"
              ELSE /\ service_name_idx' = s.byname
                   /\ service_reg_idx' = s.byreg
                   /\ freed' = s.freed
                   /\ IF s.hung THEN returns = FALSE /\ proc' = "hung"
                      ELSE IF s.ub \/ cleanup_cred(cred).overrun
                      THEN proc' = "undefined"
                      ELSE returns = TRUE /\ proc' = "cleaned"
           /\ call' = [Called("rvi_cleanup", -1, NULLNAME,
                              IF r.hung \/ s.hung THEN "hung"
                              ELSE IF s.ub THEN "freed"
                              ELSE IF cleanup_cred(cred).overrun THEN "overrun"
                              ELSE "ok",
                              "none", 0, <<>>, RVI_OK)
                         EXCEPT !.returned = returns]
    /\ UNCHANGED cred

(***************************************************************************)
(* The operations whose body is a printf and a return of 0.                *)
(***************************************************************************)
\* The unwritten operations change nothing, write nothing and return 0.
stub_return == 0

Stub(op, fd, name, path) ==
    /\ proc = "running"
    /\ call' = [Called(op, fd, name, path, "none", 0, <<>>, stub_return)
                  EXCEPT !.again = (call.op = op /\ call.name = name /\ call.fd = fd
                                    /\ call.path = path /\ call.ret = RVI_OK)]
    /\ UNCHANGED <<remote_idx, service_name_idx, service_reg_idx, open_fds,
                   freed, proc>>
    /\ UNCHANGED cred

rvi_register_service(service_name) ==
    /\ service_name \in Names
    /\ Stub("rvi_register_service", -1, service_name, "stub")

rvi_unregister_service(service_name) ==
    /\ service_name \in Names
    /\ Stub("rvi_unregister_service", -1, service_name, "stub")

rvi_invoke_remote_service(service_name) ==
    /\ service_name \in Names
    /\ Stub("rvi_invoke_remote_service", -1, service_name, "stub")

\* conn_size: the size of the caller's buffer conn.  Neither is written.
rvi_get_connections(conn_size) ==
    /\ proc = "running"
    /\ conn_size \in 1..(MaxFd + 1)
    /\ call' = [Called("rvi_get_connections", -1, NULLNAME, "stub", "none", 0,
                       <<>>, RVI_OK)
                  EXCEPT !.out = [conn |-> <<>>, conn_size |-> conn_size]]
    /\ UNCHANGED <<remote_idx, service_name_idx, service_reg_idx, open_fds,
                   freed, proc>>
    /\ UNCHANGED cred

\* The messages rvi_process_input names; an sa message gives a service as
\* available ("av") or unavailable ("un").
InputCmds == {"au", "sa", "rcv", "ping"}

InputStats == {"av", "un"}

\* A body that registers an announced service and ignores a withdrawal.
process_input_index_add(tree, cmp, fd, cmd, stat, name) ==
    IF cmd = "sa" /\ stat = "av"
    THEN btree_insert(tree, cmp, rvi_service_create(name, fd, "NULL")).tree
    ELSE tree

\* What rvi_process_input does to a service index (ordered by cmp) on a
\* message cmd from fd about name: the body is a printf, the index stays.
process_input_index(tree, cmp, fd, cmd, stat, name) == tree

\* One ready descriptor fd holding one message cmd (an sa with status stat)
\* about service_name.  again: this call withdraws what the call before it
\* announced.
rvi_process_input(fd, cmd, stat, service_name) ==
    /\ proc = "running"
    /\ fd \in RemoteFds
    /\ cmd \in InputCmds
    /\ stat \in (IF cmd = "sa" THEN InputStats ELSE {"none"})
    /\ service_name \in (IF cmd \in {"sa", "rcv"} THEN Names ELSE {NULLNAME})
    /\ service_name_idx' = process_input_index(service_name_idx, "compare_name",
                                               fd, cmd, stat, service_name)
    /\ service_reg_idx' = process_input_index(service_reg_idx, "compare_registrant",
                                              fd, cmd, stat, service_name)
    /\ LET withdraws == /\ cmd = "sa" /\ stat = "un"
                        /\ call.op = "rvi_process_input" /\ call.path = "sa"
                        /\ call.reply = "av" /\ call.fd = fd
                        /\ call.name = service_name
       IN  call' = [Called("rvi_process_input", fd, service_name, cmd, stat, 0,
                           <<>>, stub_return)
                      EXCEPT !.again = withdraws,
                             !.pre = IF cmd = "sa" /\ stat = "av"
                                     THEN <<remote_idx, service_name_idx,
                                            service_reg_idx>>
                                     ELSE IF withdraws THEN call.pre ELSE <<>>]
    /\ UNCHANGED <<remote_idx, open_fds, freed, proc>>
    /\ UNCHANGED cred

(***************************************************************************)
(* The registration path the source documents but leaves unwritten         *)
(* (rvi.c lines 751-754, 762-764, 868-881), after sections 4.1-4.3 of the  *)
(* design: rights are stored from the peer's au message, and a service is  *)
(* created and added to both service indexes.                              *)
(***************************************************************************)
\* The grants a verified credential can carry in the model; a pattern is a
\* full service name.
Grants == {[register |-> {NameOrder[1]}, invoke |-> {}],
           [register |-> Names, invoke |-> Names]}

matches(patterns, name) == name \in patterns

\* The rights of the connection fd; none when fd is not connected.
Rights(idx, fd) ==
    LET i == btree_search(idx, "compare_fd", rvi_remote_t(fd))
    IN  IF i = 0 THEN {} ELSE idx[i].right_to_register

InvokeRights(idx, fd) ==
    LET i == btree_search(idx, "compare_fd", rvi_remote_t(fd))
    IN  IF i = 0 THEN {} ELSE idx[i].right_to_invoke

update_rights(fd, register_patterns, invoke_patterns) ==
    /\ proc = "running"
    /\ fd \in RemoteFds
    /\ LET i == btree_search(remote_idx, "compare_fd", rvi_remote_t(fd))
       IN  remote_idx' = [remote_idx EXCEPT
               ![i].right_to_register = @ \cup register_patterns,
               ![i].right_to_invoke = @ \cup invoke_patterns]
    /\ call' = Called("update_rights", -1, NULLNAME, "ok", "au", 0, <<>>, RVI_OK)
    /\ UNCHANGED <<service_name_idx, service_reg_idx, open_fds, freed, proc>>
    /\ UNCHANGED cred

\* register(name, registrant, callback): the local process (registrant
\* STDIN) or a connected peer registers name.
register(name, registrant) ==
    /\ proc = "running"
    /\ name \in Names
    /\ registrant \in {STDIN} \cup RemoteFds
    /\ rvi_service_create_ok(name, registrant)
    /\ LET svc == rvi_service_create(name, registrant,
                      IF registrant = STDIN THEN "cb" ELSE "NULL")
           byname == btree_insert(service_name_idx, "compare_name", svc)
           byreg == btree_insert(service_reg_idx, "compare_registrant", svc)
       IN  \/ /\ byname.res < 0
              /\ call' = Called("register", -1, NULLNAME, "DuplicateService",
                                "none", byname.res, <<>>, -1)
              /\ UNCHANGED <<service_name_idx, service_reg_idx, proc>>
           \/ /\ byname.res = 0
              /\ registrant # STDIN
              /\ ~matches(Rights(remote_idx, registrant), name)
              /\ call' = Called("register", -1, NULLNAME, "Unauthorized",
                                "none", 0, <<>>, -1)
              /\ UNCHANGED <<service_name_idx, service_reg_idx, proc>>
           \/ /\ byname.res = 0
              /\ registrant = STDIN \/ matches(Rights(remote_idx, registrant), name)
              /\ service_name_idx' = byname.tree
              /\ service_reg_idx' = byreg.tree
              /\ call' = Called("register", -1, NULLNAME, "ok", "none",
                                byname.res, <<>>, RVI_OK)
              /\ UNCHANGED proc
           \/ \* the name index holds a destroyed service: comparing against
              \* it reads freed memory
              /\ Elems(service_name_idx) \cap freed # {}
              /\ proc' = "undefined"
              /\ call' = [Called("register", -1, NULLNAME, "freed", "none", 0,
                                 <<>>, -1) EXCEPT !.returned = FALSE]
              /\ UNCHANGED <<service_name_idx, service_reg_idx>>
    /\ UNCHANGED <<remote_idx, open_fds, freed>>
    /\ UNCHANGED cred

(***************************************************************************)
(* Specifications.                                                         *)
(***************************************************************************)
\* The operations as written in rvi.c.
Next ==
    \/ \E path \in ConnectFailures : rvi_connect_fail(path)
    \/ \E fd \in FDs, reply \in {"none", "au", "malformed"} : rvi_connect_ok(fd, reply)
    \/ \E entered, returns \in BOOLEAN, ub_ret \in {-1, 0} :
          rvi_connect_null(entered, returns, ub_ret)
    \/ \E fd \in FDs : rvi_disconnect(fd)
    \/ \E n \in Names : rvi_register_service(n)
    \/ \E n \in Names : rvi_unregister_service(n)
    \/ \E n \in Names : rvi_invoke_remote_service(n)
    \/ \E fd \in FDs, cmd \in InputCmds, stat \in InputStats \cup {"none"},
          n \in Names \cup {NULLNAME} : rvi_process_input(fd, cmd, stat, n)
    \/ \E conn_size \in 1..(MaxFd + 1) : rvi_get_connections(conn_size)
    \/ \E returns \in BOOLEAN : rvi_cleanup(returns)

Spec == Init /\ [][Next]_vars

\* The connection operations as written, with the documented registration
\* path in the place of the unwritten operations.
NextReg ==
    \/ \E path \in ConnectFailures : rvi_connect_fail(path)
    \/ \E fd \in FDs, reply \in {"none", "au", "malformed"} : rvi_connect_ok(fd, reply)
    \/ \E entered, returns \in BOOLEAN, ub_ret \in {-1, 0} :
          rvi_connect_null(entered, returns, ub_ret)
    \/ \E fd \in FDs : rvi_disconnect(fd)
    \/ \E fd \in FDs, g \in Grants : update_rights(fd, g.register, g.invoke)
    \/ \E n \in Names, r \in FDs : register(n, r)

SpecReg == Init /\ [][NextReg]_vars

\* rvi_cleanup as written, tearing down indexes that the connection
\* operations and the documented registration path have filled.
NextClean ==
    \/ \E fd \in FDs, reply \in {"none", "au", "malformed"} : rvi_connect_ok(fd, reply)
    \/ \E fd \in FDs : rvi_disconnect(fd)
    \/ \E fd \in FDs, g \in Grants : update_rights(fd, g.register, g.invoke)
    \/ \E n \in Names, r \in FDs : register(n, r)
    \/ \E returns \in BOOLEAN : rvi_cleanup(returns)

SpecClean == Init /\ [][NextClean]_vars

\* The operations as written that read the credential array, on a node with
\* any number of credential files.
NextCred ==
    \/ \E path \in ConnectFailures : rvi_connect_fail(path)
    \/ \E fd \in FDs, reply \in {"none", "au", "malformed"} : rvi_connect_ok(fd, reply)
    \/ \E fd \in FDs, reply \in {"none", "au", "malformed"}, crashes \in BOOLEAN :
          rvi_connect_nocred(fd, reply, crashes)
    \/ \E fd \in FDs : rvi_disconnect(fd)
    \/ \E returns \in BOOLEAN : rvi_cleanup(returns)

SpecCred == InitCred /\ [][NextCred]_vars

\* rvi_disconnect as written, with a btree_delete that may report an error,
\* on indexes filled as in SpecReg.
NextErr ==
    \/ \E fd \in FDs, reply \in {"none", "au", "malformed"} : rvi_connect_ok(fd, reply)
    \/ \E fd \in FDs : rvi_disconnect(fd)
    \/ \E fd \in FDs : rvi_disconnect_delerr(fd)
    \/ \E fd \in FDs, g \in Grants : update_rights(fd, g.register, g.invoke)
    \/ \E n \in Names, r \in FDs : register(n, r)

SpecErr == Init /\ [][NextErr]_vars

\* rvi_process_input as written, reading from connections whose rights and
\* services the documented registration path has filled in.
NextIn ==
    \/ \E fd \in FDs, reply \in {"none", "au", "malformed"} : rvi_connect_ok(fd, reply)
    \/ \E fd \in FDs : rvi_disconnect(fd)
    \/ \E fd \in FDs, g \in Grants : update_rights(fd, g.register, g.invoke)
    \/ \E n \in Names, r \in FDs : register(n, r)
    \/ \E fd \in FDs, cmd \in InputCmds, stat \in InputStats \cup {"none"},
          n \in Names \cup {NULLNAME} : rvi_process_input(fd, cmd, stat, n)

SpecIn == Init /\ [][NextIn]_vars

\* rvi_disconnect step by step, as a thread that reads the indexes while the
\* call runs sees it; the indexes are filled as in SpecReg.
NextConc ==
    \/ \E fd \in FDs, reply \in {"none", "au", "malformed"} : rvi_connect_ok(fd, reply)
    \/ \E fd \in FDs, g \in Grants : update_rights(fd, g.register, g.invoke)
    \/ \E n \in Names, r \in FDs : register(n, r)
    \/ \E fd \in FDs : rvi_disconnect_begin(fd)
    \/ rvi_disconnect_iterate
    \/ rvi_disconnect_end

SpecConc == Init /\ [][NextConc]_vars

(***************************************************************************)
(* Properties.                                                             *)
(***************************************************************************)
ServiceKey(name) == rvi_service_t(name, 0, "NULL")

\* Descriptor 0 is open and is not a connection: the process holds stdin.
StdinHeld == STDIN \in open_fds /\ STDIN \notin RemoteFds

\* C1: between two operations the name index and the registrant index hold
\* the same set of services.  Stated for a process that holds stdin open, so
\* that no connection shares the descriptor of the local registrant.
C1_DualIndex ==
    StdinHeld => Elems(service_name_idx) = Elems(service_reg_idx)

\* C2: when rvi_disconnect(fd) has returned RVI_OK, the connection index has
\* no entry for fd and the registrant index has no service registered by fd.
C2_DisconnectRemovesAll ==
    (call.op = "rvi_disconnect" /\ call.returned /\ call.ret = RVI_OK)
        => /\ \A r \in Elems(remote_idx) : r.fd # call.fd
           /\ \A s \in Elems(service_reg_idx) : s.registrant # call.fd

\* C2 witness: a disconnect that returned RVI_OK has destroyed two services
\* of its connection while another connection stays.
C2_Witness ==
    /\ call.op = "rvi_disconnect" /\ call.returned /\ call.ret = RVI_OK
    /\ Cardinality({s \in freed : s.registrant = call.fd}) = 2
    /\ Len(remote_idx) >= 1
    /\ call.fd # STDIN

\* C3: every service found by name is registered by the local process or by a
\* connection that is in the connection index.  Stated for a process that
\* holds stdin open.
C3_LiveRegistrant ==
    StdinHeld =>
        \A s \in Elems(service_name_idx) :
            s.registrant = STDIN \/ s.registrant \in RemoteFds

\* C4: the second of two registrations of a name with no unregistration in
\* between fails, and the registry holds exactly one service of that name,
\* registered by the first registrant (the local process).
C4_SecondRegistrationFails ==
    (call.op = "rvi_register_service" /\ call.again)
        => /\ call.ret # RVI_OK
           /\ \E s \in Elems(service_name_idx) :
                 /\ s.name = call.name
                 /\ s.registrant = STDIN
           /\ Cardinality({i \in 1..Len(service_name_idx) :
                              service_name_idx[i].name = call.name}) = 1

C6_AuthFailureCloses ==
    (call.op = "rvi_connect" /\ call.path = "ok"
        /\ call.reply \in {"none", "malformed"})
        => /\ call.ret < 0
           /\ call.fd \notin RemoteFds

\* C7: rvi_connect returns; and a call that returns a negative value or
\* cannot build the connection record leaves the connection index as it was.
C7_FailureLeavesRegistry ==
    [][(call'.op = "rvi_connect" /\ (call'.ret < 0 \/ call'.path = "nofd"))
          => (call'.returned /\ remote_idx' = remote_idx)]_vars

\* C8: a connect that returns an identifier has received the peer's
\* authenticate message and has then sent a service-announce message.
C8_ConnectOrder ==
    (call.op = "rvi_connect" /\ call.path = "ok" /\ call.returned /\ call.ret >= 0)
        => /\ call.reply = "au"
           /\ \E i \in 1..Len(call.sent) :
                 call.sent[i].cmd = "sa" /\ call.sent[i].to = call.fd

\* C9: an invoke received from a connection that holds no invoke right for
\* the name is answered with an error and runs no callback.
C9_UnauthorizedInvoke ==
    (call.op = "rvi_process_input" /\ call.path = "rcv"
        /\ ~matches(InvokeRights(remote_idx, call.fd), call.name))
        => /\ \/ call.ret # RVI_OK
              \/ \E i \in 1..Len(call.sent) : call.sent[i].cmd = "invoke-error"
           /\ call.callbacks = 0

\* C10: an invoke of a name that is not in the name index returns an error and
\* sends no message.
C10_InvokeUnknown ==
    (call.op = "rvi_invoke_remote_service"
        /\ btree_search(service_name_idx, "compare_name", ServiceKey(call.name)) = 0)
        => /\ call.ret # RVI_OK
           /\ call.sent = <<>>

\* C11: an invoke received from a connection that holds an invoke right for
\* the name of a service the local process registered with a callback runs
\* that callback exactly once and sends no invoke-error reply.  Stated for a
\* process that holds stdin open.
C11_AuthorisedInvoke ==
    (/\ call.op = "rvi_process_input" /\ call.path = "rcv"
     /\ StdinHeld
     /\ matches(InvokeRights(remote_idx, call.fd), call.name)
     /\ \E s \in Elems(service_name_idx) \ freed :
           s.name = call.name /\ s.registrant = STDIN /\ s.callback = "cb")
        => /\ call.callbacks = 1
           /\ \A i \in 1..Len(call.sent) : call.sent[i].cmd # "invoke-error"

\* C12: an invoke received from a connection that has stored no right at all
\* (it has not completed authenticate) is answered at once with an
\* invoke-error reply to that connection, and runs no callback.
C12_InvokeBeforeAuthenticate ==
    (/\ call.op = "rvi_process_input" /\ call.path = "rcv"
     /\ Rights(remote_idx, call.fd) = {}
     /\ InvokeRights(remote_idx, call.fd) = {})
        => /\ call.returned
           /\ call.callbacks = 0
           /\ \E i \in 1..Len(call.sent) :
                 call.sent[i] = Msg("invoke-error", call.fd)

\* C13: when an announce of a name as available from connection C has been
\* processed, and the name was free before, the registry holds the name with
\* registrant C exactly if C holds a register right for it; C stays connected.
C13_AnnounceRegisters ==
    (/\ call.op = "rvi_process_input" /\ call.path = "sa" /\ call.reply = "av"
     /\ call.fd # STDIN
     /\ btree_search(call.pre[2], "compare_name", ServiceKey(call.name)) = 0)
        => /\ matches(Rights(remote_idx, call.fd), call.name)
                <=> /\ \E s \in Elems(service_name_idx) :
                          s.name = call.name /\ s.registrant = call.fd
                    /\ \E s \in Elems(service_reg_idx) :
                          s.name = call.name /\ s.registrant = call.fd
           /\ call.fd \in RemoteFds

C15_UnregisterFails ==
    (/\ call.op = "rvi_unregister_service"
     /\ LET i == btree_search(service_name_idx, "compare_name", ServiceKey(call.name))
        IN  i = 0 \/ service_name_idx[i].registrant # STDIN)
        => call.ret # RVI_OK

\* C16: a call of rvi_disconnect with a descriptor that is not in the
\* connection index returns an error and leaves the connection index and both
\* service indexes as they were.
C16_DisconnectUnknown ==
    [][(call'.op = "rvi_disconnect" /\ call'.fd \notin RemoteFds)
          => /\ call'.returned
             /\ call'.ret # RVI_OK
             /\ UNCHANGED <<remote_idx, service_name_idx, service_reg_idx>>]_vars

\* C16 witness: rvi_disconnect has returned an error for a descriptor that is
\* not connected, while another connection and its service are registered.
C16_Witness ==
    /\ call.op = "rvi_disconnect" /\ call.path = "nosuch" /\ call.ret = -1
    /\ call.fd \notin RemoteFds
    /\ \E s \in Elems(service_reg_idx) :
          s.registrant # STDIN /\ s.registrant \in RemoteFds

\* C17: a call of rvi_disconnect(fd) keeps every entry of the connection
\* index with another descriptor and every service of both service indexes
\* with another registrant, adds no entry, and destroys no service of another
\* registrant.
C17_DisconnectFrame ==
    [][call'.op = "rvi_disconnect"
          => /\ \A r \in Elems(remote_idx) :
                   r.fd # call'.fd => r \in Elems(remote_idx')
             /\ Elems(remote_idx') \subseteq Elems(remote_idx)
             /\ \A s \in Elems(service_name_idx) :
                   s.registrant # call'.fd => s \in Elems(service_name_idx')
             /\ Elems(service_name_idx') \subseteq Elems(service_name_idx)
             /\ \A s \in Elems(service_reg_idx) :
                   s.registrant # call'.fd => s \in Elems(service_reg_idx')
             /\ Elems(service_reg_idx') \subseteq Elems(service_reg_idx)
             /\ \A s \in freed' \ freed : s.registrant = call'.fd]_vars

\* C17 witness: a disconnect has destroyed a service of its connection while
\* another connection and a service of that connection are still registered.
C17_Witness ==
    /\ call.op = "rvi_disconnect" /\ call.path = "ok" /\ call.returned
    /\ \E s \in freed : s.registrant = call.fd
    /\ \E r \in Elems(remote_idx) :
          /\ r.fd # call.fd /\ r.fd # STDIN
          /\ \E s \in Elems(service_reg_idx) \cap Elems(service_name_idx) :
                s.registrant = r.fd

\* C18: a thread that reads the indexes, at any moment of a run in which
\* rvi_disconnect executes, finds no service in the registrant index whose
\* registrant is neither the local process nor a connection of the connection
\* index.  Stated for a process that holds stdin open.
C18_AtomicDisconnect ==
    StdinHeld =>
        \A s \in Elems(service_reg_idx) :
            s.registrant = STDIN \/ s.registrant \in RemoteFds

\* C19: a call of rvi_cleanup returns RVI_OK and leaves the connection index
\* and both service indexes empty.  Stated for a process that holds stdin
\* open, so that no connection had the descriptor of the local registrant.
C19_CleanupEmpties ==
    (call.op = "rvi_cleanup" /\ StdinHeld)
        => /\ call.returned
           /\ call.ret = RVI_OK
           /\ remote_idx = <<>>
           /\ service_name_idx = <<>>
           /\ service_reg_idx = <<>>

\* C20: when rvi_get_connections has returned RVI_OK, the caller's buffer
\* holds the descriptors of the connection index and conn_size their number.
C20_ListConnections ==
    (call.op = "rvi_get_connections" /\ call.ret = RVI_OK)
        => /\ call.out.conn_size = Len(remote_idx)
           /\ {call.out.conn[i] : i \in 1..Len(call.out.conn)} = RemoteFds

\* C22: the au message of a connect that got past the handshake, on a node
\* that has loaded at least one credential, carries every credential the node
\* has loaded.
C22_AuCarriesAllCreds ==
    (call.op = "rvi_connect" /\ call.path = "ok")
        => \E i \in 1..Len(call.sent) :
              /\ call.sent[i].cmd = "au"
              /\ {call.sent[i].creds[k] : k \in 1..Len(call.sent[i].creds)}
                    = LoadedCreds

\* C23: no entry of the connection index has descriptor 0, the registrant of
\* the services of the local process; and no rvi_disconnect destroys a
\* service that the local process registered with its callback.
C23_NoStdinRemote ==
    /\ STDIN \notin RemoteFds
    /\ call.op = "rvi_disconnect" => \A s \in freed : s.callback # "cb"

\* C24: every call of rvi_disconnect returns.
C24_DisconnectTerminates ==
    call.op = "rvi_disconnect" => (call.returned /\ proc # "hung")

\* C25: the credential array holds at most CredSlots - 1 credentials and has
\* a NULL slot, and the loop of rvi_cleanup that frees the credentials stops
\* inside the array.
C25_CredArrayTerminated ==
    /\ Cardinality({i \in DOMAIN cred : cred[i] # NULLCRED}) <= CredSlots - 1
    /\ \E i \in DOMAIN cred : cred[i] = NULLCRED
    /\ call.op = "rvi_cleanup" => call.path # "overrun"

====
